---- MODULE Spec2Model ----
(***************************************************************************)
(* Model of the snapshot-service API handlers of src/cmd/main.go:          *)
(* listKeys, listFiles, latestSnapshot and snapshotInfo, run by request    *)
(* goroutines against an S3-style bucket.  Strings are sequences of byte   *)
(* codes, so that prefixes, splitting, substring tests and the byte-wise   *)
(* comparison of keys are computed as Go computes them.                    *)
(***************************************************************************)
EXTENDS Integers, Sequences, FiniteSets

VARIABLES config, sess, bucket, metaBody, req, latestObject

vars == <<config, sess, bucket, metaBody, req, latestObject>>

(* ----------------------------- bounds ---------------------------------- *)
\* largest number of objects in the bucket
MaxObjects == 3
\* number of keys the store returns per listing page
PageSize == 2
\* number of request goroutines that may run at the same time
NumReq == 2

(* ----------------------------- strings --------------------------------- *)
\* the byte '/'
Slash == 47

\* "snapshot-latest.json"
SentinelName ==
  <<115,110,97,112,115,104,111,116,45,108,97,116,101,115,116,46,106,115,111,110>>

Min(a, b) == IF a < b THEN a ELSE b

\* Go's  a > b  on strings: byte-wise lexicographic order
StrGreater(a, b) ==
  \/ Len(a) > Len(b) /\ \A j \in 1..Len(b) : a[j] = b[j]
  \/ \E i \in 1..Min(Len(a), Len(b)) :
        a[i] > b[i] /\ \A j \in 1..(i-1) : a[j] = b[j]

\* the store's prefix filter on keys
HasPrefix(s, pre) == Len(pre) <= Len(s) /\ SubSeq(s, 1, Len(pre)) = pre

\* strings.Contains(s, sub)
Contains(s, sub) ==
  \E i \in 0..(Len(s) - Len(sub)) : SubSeq(s, i+1, i+Len(sub)) = sub

\* strings.Split(s, "/"): the segments between the separators, empty ones kept
RECURSIVE Split(_)
Split(s) ==
  IF \A i \in 1..Len(s) : s[i] # Slash THEN <<s>>
  ELSE LET i == CHOOSE k \in 1..Len(s) :
                   s[k] = Slash /\ \A j \in 1..(k-1) : s[j] # Slash
       IN <<SubSeq(s, 1, i-1)>> \o Split(SubSeq(s, i+1, Len(s)))

\* fmt.Sprintf("%s/%s/", protocol, network)
Prefix(protocol, network) == protocol \o <<Slash>> \o network \o <<Slash>>

\* fmt.Sprintf("%s/%s/snapshot-latest.json", protocol, network)
SentinelKey(protocol, network) == Prefix(protocol, network) \o SentinelName

(* ------------------------- the object store ---------------------------- *)
\* "b", "e"  and  "m"
Protocols == {<<98>>, <<101>>}
Networks == {<<109>>}

\* b/m/1  b/m/2  b/m/t  b/m/snapshot-latest.json  e/m/1  r
KeyUniverse ==
  { <<98,47,109,47,49>>, <<98,47,109,47,50>>, <<98,47,109,47,116>>,
    SentinelKey(<<98>>, <<109>>), <<101,47,109,47,49>>, <<114>> }

\* size and modification time of an object, independent of its key
Attrs == { [size |-> 10, lastModified |-> 2], [size |-> 20, lastModified |-> 1] }

Objects ==
  { [key |-> k, size |-> a.size, lastModified |-> a.lastModified] :
      k \in KeyUniverse, a \in Attrs }

\* the nil *s3.Object
NoObject == [key |-> <<>>, size |-> 0, lastModified |-> 0]

\* "{}" parses as JSON, "{" does not
Bodies == { <<123,125>>, <<123>> }

\* json.Unmarshal(body, &data)
Unmarshal(body) ==
  IF body = <<123,125>> THEN [ok |-> TRUE, data |-> "object"]
  ELSE [ok |-> FALSE, data |-> "none"]

\* every bucket content: objects with distinct keys, in the order the store
\* enumerates them
Buckets ==
  { s \in UNION { [1..k -> Objects] : k \in 0..MaxObjects } :
      \A i, j \in 1..Len(s) : i # j => s[i].key # s[j].key }

Keys(s) == { s[i].key : i \in 1..Len(s) }

\* the listing of the objects under a prefix, all pages together
Listing(prefix) == SelectSeq(bucket, LAMBDA o : HasPrefix(o.key, prefix))

\* the number of pages of a listing (an empty listing is one empty page)
NumPages(listing) ==
  IF Len(listing) = 0 THEN 1 ELSE (Len(listing) + PageSize - 1) \div PageSize

\* page k of a listing
Page(listing, k) ==
  SubSeq(listing, (k-1) * PageSize + 1, Min(k * PageSize, Len(listing)))

\* svc.ListObjectsV2(req): one call, one page
ListObjectsV2(prefix) == Page(Listing(prefix), 1)

\* req.Presign(15 * time.Minute)
PresignMinutes == 15
Presign(key) == [key |-> key, minutes |-> PresignMinutes]

(* --------------------------- requests ---------------------------------- *)
Requests == 1..NumReq

Idle ==
  [ op |-> "none", protocol |-> <<>>, network |-> <<>>, pc |-> "idle",
    resp |-> <<>>, i |-> 0, files |-> <<>>, pagesReq |-> <<>>,
    presigns |-> 0, storeErr |-> "none", status |-> 0,
    body |-> [kind |-> "none"] ]

\* c.JSON(status, body); return
Respond(rq, status, body) ==
  [rq EXCEPT !.pc = "done", !.status = status, !.body = body]

\* gin.H{"error": err.Error()} after a failed store call
Fail(rq, what) ==
  Respond([rq EXCEPT !.storeErr = what], 500, [kind |-> "error", error |-> what])

(* --------------------------- listKeys ---------------------------------- *)
\* lines 155-173: the distinct "segment0/segment1" of the keys that have at
\* least two segments
Dirs(resp) ==
  { Split(resp[i].key)[1] \o <<Slash>> \o Split(resp[i].key)[2] :
      i \in { j \in 1..Len(resp) : Len(Split(resp[j].key)) >= 2 } }

\* the handler works on a session of its own (sess, _ := ...), drops the
\* error of the listing call and reads resp.Contents, which is empty when the
\* call failed
ListKeys(r) ==
  /\ req[r].pc = "listKeys"
  /\ \E ok \in BOOLEAN :
       LET resp == IF ok THEN ListObjectsV2(<<>>) ELSE <<>>
           rq == [req[r] EXCEPT !.resp = resp,
                                !.storeErr = IF ok THEN "none" ELSE "list"]
       IN req' = [req EXCEPT
                    ![r] = Respond(rq, 200, [kind |-> "dirs", dirs |-> Dirs(resp)])]
  /\ UNCHANGED <<config, sess, bucket, metaBody, latestObject>>

(* --------------------------- listFiles --------------------------------- *)
\* a failed Presign skips the object and the loop goes on
ListFilesSkipOnPresignError(rq) ==
  [rq EXCEPT !.storeErr = "presign", !.i = @ + 1]

\* lines 124-127: a failed Presign ends the request with the error
ListFilesOnPresignError(rq) == Fail(rq, "presign")

\* lines 128-134
FileEntry(item) ==
  [ last_modified |-> item.lastModified, size |-> item.size,
    filename |-> item.key, url |-> Presign(item.key) ]

\* lines 105-114
ListFilesList(r) ==
  /\ req[r].pc = "listFiles"
  /\ LET rq == req[r] IN
     \E ok \in BOOLEAN :
       req' = [req EXCEPT ![r] =
                 IF ok
                 THEN [rq EXCEPT !.resp = ListObjectsV2(Prefix(rq.protocol, rq.network)),
                                 !.i = 1, !.pc = "loop"]
                 ELSE Fail(rq, "list")]
  /\ UNCHANGED <<config, sess, bucket, metaBody, latestObject>>

\* lines 117-138: one turn of the loop, or the response after the last one
ListFilesItem(r) ==
  /\ req[r].pc = "loop"
  /\ LET rq == req[r] IN
     IF rq.i > Len(rq.resp)
     THEN req' = [req EXCEPT ![r] =
                    Respond(rq, 200, [kind |-> "files", files |-> rq.files])]
     ELSE LET item == rq.resp[rq.i] IN
          IF Contains(item.key, rq.protocol) /\ Contains(item.key, rq.network)
          THEN \E ok \in BOOLEAN :
                 LET signed == [rq EXCEPT !.presigns = @ + 1] IN
                 req' = [req EXCEPT ![r] =
                           IF ok
                           THEN [signed EXCEPT !.files = Append(@, FileEntry(item)),
                                               !.i = @ + 1]
                           ELSE ListFilesOnPresignError(signed)]
          ELSE req' = [req EXCEPT ![r] = [rq EXCEPT !.i = @ + 1]]
  /\ UNCHANGED <<config, sess, bucket, metaBody, latestObject>>

(* ------------------------- latestSnapshot ------------------------------ *)
\* latestObject as a package-level variable, one for all invocations
LatestCellShared(r) == 1

\* line 187: latestObject is a variable of the invocation
LatestCell(r) == r

\* the comparison of keys without the exclusion of the sentinel
ReplacesSentinelToo(item, latest, prefix) ==
  latest = NoObject \/ StrGreater(item.key, latest.key)

\* the comparison of modification times in place of keys
ReplacesByTime(item, latest, prefix) ==
  /\ item.key # prefix \o SentinelName
  /\ (latest = NoObject \/ item.lastModified > latest.lastModified)

\* line 194: the condition under which item becomes the tracked candidate
Replaces(item, latest, prefix) ==
  /\ item.key # prefix \o SentinelName
  /\ (latest = NoObject \/ StrGreater(item.key, latest.key))

\* lines 192-199: the callback applied to one page
RECURSIVE ScanPage(_, _, _)
ScanPage(items, latest, prefix) ==
  IF items = <<>> THEN latest
  ELSE ScanPage(Tail(items),
                IF Replaces(Head(items), latest, prefix) THEN Head(items) ELSE latest,
                prefix)

\* a failed listing is passed over and the handler goes on with the pages
\* it has seen
LatestIgnoreListError(rq) == [rq EXCEPT !.storeErr = "list", !.pc = "presign"]

\* lines 201-204: a failed listing ends the request with the error
LatestOnListError(rq) == Fail(rq, "list")

\* no candidate after the listing answered as a failure
LatestAfterListAsError(rq, lo) ==
  IF lo = NoObject
  THEN Respond(rq, 500, [kind |-> "error", error |-> "none"])
  ELSE [rq EXCEPT !.pc = "presign"]

\* lines 206-209: no candidate after the listing is the 404 answer
LatestAfterList(rq, lo) ==
  IF lo = NoObject
  THEN Respond(rq, 404, [kind |-> "message"])
  ELSE [rq EXCEPT !.pc = "presign"]

\* lines 189-209: ListObjectsV2Pages fetches the next page and hands it to the
\* callback; after the last page the handler goes on
LatestPage(r) ==
  /\ req[r].pc = "pages"
  /\ LET rq == req[r]
         prefix == Prefix(rq.protocol, rq.network)
         listing == Listing(prefix)
         k == Len(rq.pagesReq) + 1
         asked == [rq EXCEPT !.pagesReq = Append(@, k)]
     IN \E ok \in BOOLEAN :
          IF ok
          THEN LET lo == ScanPage(Page(listing, k), latestObject[LatestCell(r)], prefix)
               IN /\ latestObject' = [latestObject EXCEPT ![LatestCell(r)] = lo]
                  /\ req' = [req EXCEPT ![r] =
                               IF k = NumPages(listing)
                               THEN LatestAfterList(asked, lo) ELSE asked]
          ELSE /\ req' = [req EXCEPT ![r] = LatestOnListError(asked)]
               /\ UNCHANGED latestObject
  /\ UNCHANGED <<config, sess, bucket, metaBody>>

\* lines 212-222
LatestPresign(r) ==
  /\ req[r].pc = "presign"
  /\ LET lo == latestObject[LatestCell(r)]
         signed == [req[r] EXCEPT !.presigns = @ + 1]
     IN \E ok \in BOOLEAN :
          req' = [req EXCEPT ![r] =
                    IF ok
                    THEN Respond(signed, 200,
                                 [kind |-> "link", url |-> Presign(lo.key),
                                  size |-> lo.size,
                                  last_modified |-> lo.lastModified])
                    ELSE Fail(signed, "presign")]
  /\ UNCHANGED <<config, sess, bucket, metaBody, latestObject>>

(* -------------------------- snapshotInfo ------------------------------- *)
\* lines 231-247: GetObject of the metadata key
InfoGet(r) ==
  /\ req[r].pc = "get"
  /\ LET rq == req[r] IN
     \E ok \in BOOLEAN :
       req' = [req EXCEPT ![r] =
                 IF ~ok THEN Fail(rq, "get")
                 ELSE IF SentinelKey(rq.protocol, rq.network) \notin Keys(bucket)
                 THEN Respond([rq EXCEPT !.storeErr = "NoSuchKey"], 404,
                              [kind |-> "message"])
                 ELSE [rq EXCEPT !.pc = "read"]]
  /\ UNCHANGED <<config, sess, bucket, metaBody, latestObject>>

\* lines 249-263: read the body and decode it
InfoRead(r) ==
  /\ req[r].pc = "read"
  /\ LET rq == req[r] IN
     \E ok \in BOOLEAN :
       req' = [req EXCEPT ![r] =
                 IF ~ok THEN Fail(rq, "read")
                 ELSE IF Unmarshal(metaBody).ok
                 THEN Respond(rq, 200,
                              [kind |-> "data", data |-> Unmarshal(metaBody).data])
                 ELSE Respond(rq, 500, [kind |-> "error", error |-> "json"])]
  /\ UNCHANGED <<config, sess, bucket, metaBody, latestObject>>

(* --------------------------- the server -------------------------------- *)
\* lines 85-89: the router hands a request to its handler
Start(r) ==
  /\ req[r].pc = "idle"
  /\ \/ /\ req' = [req EXCEPT ![r] = [Idle EXCEPT !.op = "listKeys", !.pc = "listKeys"]]
        /\ UNCHANGED latestObject
     \/ \E p \in Protocols, n \in Networks :
          \/ /\ req' = [req EXCEPT ![r] =
                          [Idle EXCEPT !.op = "listFiles", !.pc = "listFiles",
                                       !.protocol = p, !.network = n]]
             /\ UNCHANGED latestObject
          \/ /\ req' = [req EXCEPT ![r] =
                          [Idle EXCEPT !.op = "latestSnapshot", !.pc = "pages",
                                       !.protocol = p, !.network = n]]
             /\ latestObject' = [latestObject EXCEPT ![LatestCell(r)] = NoObject]
          \/ /\ req' = [req EXCEPT ![r] =
                          [Idle EXCEPT !.op = "snapshotInfo", !.pc = "get",
                                       !.protocol = p, !.network = n]]
             /\ UNCHANGED latestObject
  /\ UNCHANGED <<config, sess, bucket, metaBody>>

\* the handler has returned; the goroutine serves the next request
Return(r) ==
  /\ req[r].pc = "done"
  /\ req' = [req EXCEPT ![r] = Idle]
  /\ latestObject' = IF req[r].op = "latestSnapshot"
                     THEN [latestObject EXCEPT ![LatestCell(r)] = NoObject]
                     ELSE latestObject
  /\ UNCHANGED <<config, sess, bucket, metaBody>>

Step(r) ==
  \/ Start(r)
  \/ ListKeys(r)
  \/ ListFilesList(r)
  \/ ListFilesItem(r)
  \/ LatestPage(r)
  \/ LatestPresign(r)
  \/ InfoGet(r)
  \/ InfoRead(r)
  \/ Return(r)

\* lines 40-63: what init() leaves behind
Started ==
  /\ config = [BucketName |-> "snapshots"]
  /\ sess = "session"
  /\ req = [r \in Requests |-> Idle]
  /\ latestObject = [r \in Requests |-> NoObject]

\* any bucket content, one request at a time
Init ==
  /\ Started
  /\ bucket \in Buckets
  /\ metaBody \in IF SentinelKey(<<98>>, <<109>>) \in Keys(bucket)
                  THEN Bodies ELSE {<<123,125>>}

Next == Step(1)

Spec == Init /\ [][Next]_vars

\* the buckets of MaxObjects objects that the store enumerates in key order
\* (as S3 does), the objects' attributes being the same and the namespace e/m
\* holding nothing
SortedBuckets ==
  { s \in Buckets :
      /\ Len(s) = MaxObjects
      /\ \A i \in 1..(Len(s) - 1) : StrGreater(s[i+1].key, s[i].key)
      /\ \A i \in 1..Len(s) :
           s[i].lastModified = 1 /\ ~HasPrefix(s[i].key, Prefix(<<101>>, <<109>>)) }

\* a key-ordered bucket, the request goroutines running concurrently
InitConc ==
  /\ Started
  /\ bucket \in SortedBuckets
  /\ metaBody \in IF SentinelKey(<<98>>, <<109>>) \in Keys(bucket)
                  THEN Bodies ELSE {<<123,125>>}

NextConc == \E r \in Requests : Step(r)

SpecConc == InitConc /\ [][NextConc]_vars

(* ------------------------- properties ---------------------------------- *)
Range(q) == { q[i] : i \in 1..Len(q) }

IsDone(r, op) == req[r].op = op /\ req[r].pc = "done"

\* the objects of the bucket that may be selected for (p, n)
Candidates(p, n) ==
  { o \in Range(bucket) : HasPrefix(o.key, Prefix(p, n)) /\ o.key # SentinelKey(p, n) }

\* the object of a non-empty set of objects whose key is byte-wise greatest
Greatest(S) == CHOOSE o \in S : \A o2 \in S \ {o} : StrGreater(o.key, o2.key)

\* the position of the object with key k in the listing of (p, n)
PosIn(p, n, k) ==
  CHOOSE i \in 1..Len(Listing(Prefix(p, n))) : Listing(Prefix(p, n))[i].key = k

\* C1: GetLatestSnapshot never tracks nor returns the object whose key is
\* p/n/snapshot-latest.json, wherever that key stands in the listing.
C1_SentinelNeverSelected ==
  \A r \in Requests :
    req[r].op = "latestSnapshot" =>
      /\ latestObject[r].key # SentinelKey(req[r].protocol, req[r].network)
      /\ (req[r].pc = "done" /\ req[r].status = 200 =>
            req[r].body.url.key # SentinelKey(req[r].protocol, req[r].network))

\* a link was returned although the sentinel is the greatest key under the
\* prefix and stands on the second page
C1_Witness ==
  \E r \in Requests :
    LET p == req[r].protocol
        n == req[r].network IN
    /\ IsDone(r, "latestSnapshot") /\ req[r].status = 200
    /\ SentinelKey(p, n) \in Keys(bucket)
    /\ PosIn(p, n, SentinelKey(p, n)) > PageSize
    /\ \A o \in Candidates(p, n) : StrGreater(SentinelKey(p, n), o.key)

\* C2: once every page of the listing has been returned and a non-sentinel
\* object exists under the prefix, the selected object is the one whose key is
\* byte-wise greatest among the non-sentinel objects of all pages, and the link
\* returned is the link of that object.
C2_GreatestKeySelected ==
  \A r \in Requests :
    LET p == req[r].protocol
        n == req[r].network IN
    /\ req[r].op = "latestSnapshot" /\ req[r].pc \in {"presign", "done"}
       /\ req[r].storeErr # "list" /\ Candidates(p, n) # {}
         => latestObject[r] = Greatest(Candidates(p, n))
    /\ IsDone(r, "latestSnapshot") /\ req[r].status = 200
         => /\ Candidates(p, n) # {}
            /\ req[r].body.url.key = Greatest(Candidates(p, n)).key
            /\ req[r].body.size = Greatest(Candidates(p, n)).size
            /\ req[r].body.last_modified = Greatest(Candidates(p, n)).lastModified

\* the selected object stands on the second page, precedes a smaller key in
\* the listing order or follows one out of order, and is older than another
\* candidate
C2_Witness ==
  \E r \in Requests :
    LET p == req[r].protocol
        n == req[r].network IN
    /\ IsDone(r, "latestSnapshot") /\ req[r].status = 200
    /\ PosIn(p, n, req[r].body.url.key) > PageSize
    /\ \E o \in Candidates(p, n) : o.lastModified > req[r].body.last_modified
    /\ \E i \in 1..(Len(bucket) - 1) : StrGreater(bucket[i].key, bucket[i+1].key)

\* C3: with a listing that succeeded and no non-sentinel object, the answer is
\* the 404 "not found" answer and no presign request is made; and the 404
\* answer is given only then, never after a store failure.
C3_NotFound ==
  \A r \in Requests :
    LET p == req[r].protocol
        n == req[r].network IN
    IsDone(r, "latestSnapshot") =>
      /\ req[r].storeErr # "list" /\ Candidates(p, n) = {}
           => /\ req[r].status = 404 /\ req[r].body.kind = "message"
              /\ req[r].presigns = 0
      /\ req[r].status = 404
           => /\ req[r].storeErr = "none" /\ Candidates(p, n) = {}
              /\ Len(req[r].pagesReq) = NumPages(Listing(Prefix(p, n)))
              /\ req[r].presigns = 0
      /\ req[r].storeErr # "none" => req[r].status = 500 /\ req[r].body.kind = "error"

\* the 404 answer for a namespace that holds only the sentinel
C3_Witness ==
  \E r \in Requests :
    /\ IsDone(r, "latestSnapshot") /\ req[r].status = 404
    /\ SentinelKey(req[r].protocol, req[r].network) \in Keys(bucket)

\* C4: ListSnapshotFiles is all-or-nothing: a failed listing or a failed
\* presign makes the answer an error that carries no link, and the 200 answer
\* is given only when no store call failed, with one link per presign request.
C4_AllOrNothing ==
  \A r \in Requests :
    IsDone(r, "listFiles") =>
      /\ req[r].storeErr # "none"
           => req[r].status = 500 /\ req[r].body = [kind |-> "error", error |-> req[r].storeErr]
      /\ req[r].status = 200
           => /\ req[r].storeErr = "none"
              /\ req[r].body.kind = "files"
              /\ Len(req[r].body.files) = req[r].presigns
              /\ Len(req[r].body.files) = Len(req[r].resp)

\* a presign failed after a link had been generated for an earlier object
C4_Witness ==
  \E r \in Requests :
    /\ IsDone(r, "listFiles") /\ req[r].storeErr = "presign"
    /\ Len(req[r].files) >= 1

\* C5: with a reachable store, ListNamespaces returns exactly the distinct
\* "segment0/segment1" pairs of all the keys of the bucket that have at least
\* two segments, the keys of later listing pages included.
C5_AllNamespaces ==
  \A r \in Requests :
    IsDone(r, "listKeys") /\ req[r].storeErr = "none"
      => req[r].status = 200 /\ req[r].body.dirs = Dirs(bucket)

\* C6: a failed listing makes ListNamespaces report an error, never a success
\* with an empty or partial set.
C6_ListFailureReported ==
  \A r \in Requests :
    IsDone(r, "listKeys") /\ req[r].storeErr = "list" => req[r].status # 200

\* the kind of answer a caller sees: the status and the shape of the body
Class(rq) == <<rq.status, rq.body.kind>>

\* C7: GetSnapshotInfo answers 404 for a missing key, the generic failure for
\* any other store failure, the document for a valid body, and for a body that
\* is not JSON an answer of another kind than the store failure's.
C7_InfoOutcomes ==
  \A r \in Requests :
    IsDone(r, "snapshotInfo") =>
      /\ req[r].storeErr = "NoSuchKey" => req[r].status = 404
      /\ req[r].storeErr \in {"get", "read"} => Class(req[r]) = <<500, "error">>
      /\ req[r].storeErr = "none" /\ Unmarshal(metaBody).ok
           => req[r].status = 200 /\ req[r].body.kind = "data"
      /\ req[r].storeErr = "none" /\ ~Unmarshal(metaBody).ok
           => Class(req[r]) # <<500, "error">>

\* C8: the 200 answer of ListSnapshotFiles has exactly one link for each object
\* whose key begins with p/n/, those of later listing pages included, each link
\* carrying its object's data, and no more presign requests than objects.
C8_AllFilesLinked ==
  \A r \in Requests :
    LET listing == Listing(Prefix(req[r].protocol, req[r].network)) IN
    IsDone(r, "listFiles") /\ req[r].status = 200 =>
      /\ req[r].presigns <= Len(listing)
      /\ Len(req[r].body.files) = Len(listing)
      /\ \A i \in 1..Len(req[r].body.files) :
           req[r].body.files[i] = FileEntry(listing[i])

\* C9: in GetLatestSnapshot the pages are asked for one after the other, each
\* once; a failed page ends the request with the error, without a link and
\* without a presign request; the presign request is made at most once, after
\* the last page, and its failure ends the request with the error.
C9_NoRetry ==
  \A r \in Requests :
    LET rq == req[r]
        pages == NumPages(Listing(Prefix(rq.protocol, rq.network))) IN
    rq.op = "latestSnapshot" =>
      /\ \A i \in 1..Len(rq.pagesReq) : rq.pagesReq[i] = i
      /\ Len(rq.pagesReq) <= pages
      /\ rq.storeErr = "list"
           => /\ rq.pc = "done" /\ rq.status = 500 /\ rq.body.kind = "error"
              /\ rq.presigns = 0
      /\ rq.presigns <= 1
      /\ rq.pc = "presign" \/ rq.presigns = 1
           => Len(rq.pagesReq) = pages /\ rq.storeErr \in {"none", "presign"}
      /\ rq.storeErr = "presign"
           => rq.pc = "done" /\ rq.status = 500 /\ rq.body.kind = "error"

\* the second page failed after the first had given a candidate
C9_Witness ==
  \E r \in Requests :
    /\ IsDone(r, "latestSnapshot") /\ req[r].storeErr = "list"
    /\ Len(req[r].pagesReq) >= 2
    /\ latestObject[r] # NoObject

\* the answer of a request that runs alone against the bucket and meets the
\* store failure rq.storeErr
Alone(rq) ==
  LET p == rq.protocol
      n == rq.network
      first == ListObjectsV2(Prefix(p, n))
      failed == <<500, [kind |-> "error", error |-> rq.storeErr]>>
  IN CASE rq.op = "listKeys" ->
            <<200, [kind |-> "dirs",
                    dirs |-> IF rq.storeErr = "list" THEN {}
                             ELSE Dirs(ListObjectsV2(<<>>))]>>
       [] rq.op = "listFiles" ->
            IF rq.storeErr # "none" THEN failed
            ELSE <<200, [kind |-> "files",
                         files |-> [i \in 1..Len(first) |-> FileEntry(first[i])]]>>
       [] rq.op = "latestSnapshot" ->
            IF rq.storeErr # "none" THEN failed
            ELSE IF Candidates(p, n) = {} THEN <<404, [kind |-> "message"]>>
            ELSE LET o == Greatest(Candidates(p, n)) IN
                 <<200, [kind |-> "link", url |-> Presign(o.key), size |-> o.size,
                         last_modified |-> o.lastModified]>>
       [] rq.op = "snapshotInfo" ->
            IF rq.storeErr \in {"get", "read"} THEN failed
            ELSE IF SentinelKey(p, n) \notin Keys(bucket)
            THEN <<404, [kind |-> "message"]>>
            ELSE IF Unmarshal(metaBody).ok
            THEN <<200, [kind |-> "data", data |-> Unmarshal(metaBody).data]>>
            ELSE <<500, [kind |-> "error", error |-> "json"]>>

\* C10: no step of a request writes the configuration, the session or the
\* bucket, nor the state of another request; and whatever the interleaving,
\* a request that completes gives the answer it gives when it runs alone.
C10_NoSharedState ==
  [][ /\ config' = config /\ sess' = sess /\ bucket' = bucket
      /\ \A r \in Requests :
           req'[r] # req[r] =>
             \A q \in Requests \ {r} :
               req'[q] = req[q] /\ latestObject'[q] = latestObject[q]
      /\ \A r \in Requests :
           req'[r].pc = "done" => <<req'[r].status, req'[r].body>> = Alone(req'[r])
    ]_vars

\* one request has a candidate and pages left while another has answered 404
\* for a namespace without snapshots
C10_Witness ==
  \E r, q \in Requests :
    /\ r # q
    /\ req[r].op = "latestSnapshot" /\ req[r].pc = "pages"
    /\ latestObject[r] # NoObject
    /\ IsDone(q, "latestSnapshot") /\ req[q].status = 404
    /\ req[q].protocol # req[r].protocol

====
